---- MODULE Spec2Model ----
(***************************************************************************)
(* OrangeWeb3: the engagement and progression engine.                      *)
(*                                                                         *)
(* The state is the content of the database tables of shared/schema.ts     *)
(* that the request handlers of server/routes.ts read and write through    *)
(* server/storage.ts (DatabaseStorage), and the requests being served.     *)
(* Express starts a handler per request and a handler yields at each       *)
(* await, so the handlers of several requests interleave between their     *)
(* awaits: every action is the step of one handler from one await to the   *)
(* next (the statement awaited and the synchronous code that follows it),  *)
(* by an authenticated user (req.isAuthenticated() holds, req.user.id =    *)
(* u).  A handler with one await is one action.                            *)
(*                                                                         *)
(* Table rows are kept in insertion order.  A row's id is the next value   *)
(* of its table's serial, which an insert takes whether it succeeds or     *)
(* not; createdAt (defaultNow) is a logical timestamp that grows with the  *)
(* insertion order of its table.                                           *)
(***************************************************************************)
EXTENDS Integers, Sequences, FiniteSets, TLC

VARIABLES
    connections,              \* table connections
    notifications,            \* table notifications
    vibes,                    \* table vibes
    likes,                    \* table likes
    comments,                 \* table comments
    messages,                 \* table messages
    serial,                   \* the last value taken from the id sequences of the tables
                              \* vibes, likes and comments
    userQuestProgress,        \* table user_quest_progress
    userLearningProgress,     \* table user_learning_progress
    userAchievementProgress,  \* table user_achievement_progress
    userLevel,                \* table user_level
    userProgress,             \* the learn page's userProgress state, per signed-in user
    req,                      \* the last request answered: route and inputs
    res,                      \* the response sent to it: status, message, body
    reactionRun,              \* history: the isLike values (the last three) of the run of
                              \* consecutive like requests for one (user, vibe) that req ends
    lastReaction,             \* history: per (user, vibe), the isLike of the last write
                              \* to table likes made for a like request
    inflight                  \* per handler: the request it is serving and the await it
                              \* is suspended at ("idle" when it serves none)

vars == <<connections, notifications, vibes, likes, comments, messages, serial,
          userQuestProgress, userLearningProgress, userAchievementProgress,
          userLevel, userProgress, req, res, reactionRun, lastReaction,
          inflight>>

--------------------------------------------------------------------------
(* Bounds of the model *)

MaxConnections == 1
MaxStoredNotifications == 2
MaxLikes == 1
MaxComments == 1
MaxMessages == 1
MaxFailedInserts == 1
MaxClaims == 2

(* The rows of table users (their ids); no handler modelled here adds or
   removes a user. *)
Users == {1, 2, 3}

(* The ids of the vibes that can be posted: the serial of table vibes gives
   out at most these values. *)
VibeIds == {1, 2}
MaxVibes == Cardinality(VibeIds)

(* The users who act in the specifications of the EngagementAggregator and
   of the ProgressionEngine. *)
ActiveUsers == {1, 2}

(* The users who post the vibes in these specifications. *)
Authors == {1}

(* The requests that can be served at the same time. *)
Handlers == {1, 2}
Idle == [op |-> "idle"]

(* A request is taken by the first handler that serves none: which handler
   serves a request makes no difference to it. *)
FreeHandler(h) ==
    /\ inflight[h] = Idle
    /\ \A g \in Handlers : g < h => inflight[g] # Idle

(* The handler that serves the requests issued one at a time *)
FirstHandler == CHOOSE h \in Handlers : \A g \in Handlers : h <= g

(* No request is being served: a request issued after the answer to the one
   before it starts in such a state. *)
NoneInFlight == \A h \in Handlers : inflight[h] = Idle

--------------------------------------------------------------------------
(* Generic helpers over tables (sequences of rows) *)

Rows(table) == {table[i] : i \in 1 .. Len(table)}

Min(a, b) == IF a < b THEN a ELSE b

Reply(status, message, body) ==
    [status |-> status, message |-> message, body |-> body]

(* The tables whose rows the handlers below neither delete nor fail to
   insert (connections, notifications, messages): the next value of the
   serial is the number of rows plus one. *)
nextval(table) == Len(table) + 1

(* Mutant: recipient and actor are stored in each other's column. *)
createNotificationSwapped(table, notification) ==
    Append(table, [id         |-> nextval(table),
                   userId     |-> notification.fromUserId,
                   type       |-> notification.type,
                   fromUserId |-> notification.userId,
                   entityId   |-> notification.entityId,
                   content    |-> notification.content,
                   isRead     |-> notification.isRead,
                   createdAt  |-> nextval(table)])

(* Mutant: the insert is lost. *)
createNotificationDropped(table, notification) == table

(* db.insert(notifications).values(notification).returning() *)
createNotification(table, notification) ==
    Append(table, [id         |-> nextval(table),
                   userId     |-> notification.userId,
                   type       |-> notification.type,
                   fromUserId |-> notification.fromUserId,
                   entityId   |-> notification.entityId,
                   content    |-> notification.content,
                   isRead     |-> notification.isRead,
                   createdAt  |-> nextval(table)])

NoContent == << >>

UnchangedLearning == UNCHANGED <<userQuestProgress, userLearningProgress,
                                 userAchievementProgress, userLevel, userProgress>>
UnchangedContent == UNCHANGED <<vibes, likes, comments, messages, serial,
                                reactionRun, lastReaction>>
UnchangedTables == UNCHANGED <<connections, notifications, vibes, likes, comments,
                               messages, serial>>

--------------------------------------------------------------------------
(* ConnectionGraph *)

(* Mutant: the two user ids of the lookup compared against the wrong columns. *)
getConnectionByUsersSwapped(table, userId, connectedToId) ==
    {c \in Rows(table) : c.userId = connectedToId /\ c.connectedToId = userId}

(* Mutant: a rejected row does not count as the pair's connection. *)
getConnectionByUsersUnresolved(table, userId, connectedToId) ==
    {c \in Rows(table) : /\ c.userId = userId /\ c.connectedToId = connectedToId
                         /\ c.status # "rejected"}

(* DatabaseStorage.getConnectionByUsers: the rows of the ordered pair. *)
getConnectionByUsers(table, userId, connectedToId) ==
    {c \in Rows(table) : c.userId = userId /\ c.connectedToId = connectedToId}

(* DatabaseStorage.getConnectionById *)
getConnectionById(table, id) ==
    {c \in Rows(table) : c.id = id}

(* Mutant: the row is stored with its two parties exchanged. *)
createConnectionReversed(table, connection) ==
    Append(table, [id            |-> nextval(table),
                   userId        |-> connection.connectedToId,
                   connectedToId |-> connection.userId,
                   status        |-> connection.status,
                   createdAt     |-> nextval(table)])

(* Mutant: the row is stored as accepted at once. *)
createConnectionAccepted(table, connection) ==
    Append(table, [id            |-> nextval(table),
                   userId        |-> connection.userId,
                   connectedToId |-> connection.connectedToId,
                   status        |-> "accepted",
                   createdAt     |-> nextval(table)])

(* DatabaseStorage.createConnection *)
createConnection(table, connection) ==
    Append(table, [id            |-> nextval(table),
                   userId        |-> connection.userId,
                   connectedToId |-> connection.connectedToId,
                   status        |-> connection.status,
                   createdAt     |-> nextval(table)])

(* DatabaseStorage.updateConnectionStatus: UPDATE ... SET status WHERE id *)
updateConnectionStatus(table, id, status) ==
    [i \in 1 .. Len(table) |->
        IF table[i].id = id THEN [table[i] EXCEPT !.status = status] ELSE table[i]]

(* Mutant: either party of the connection may answer it. *)
isEitherParty(connection, user) ==
    user \in {connection.userId, connection.connectedToId}

(* PUT /api/connections/:id: "Only the connection recipient can update the status" *)
isRecipient(connection, user) ==
    connection.connectedToId = user

StatusInputs == {"accepted", "rejected", "pending"}
ConnectionIds == 1 .. MaxConnections

(* POST /api/connections with a body whose connectedToId is not a number:
   insertConnectionSchema.parse throws a ZodError before the first await *)
RequestConnectionMalformed(u) ==
    /\ UnchangedTables
    /\ UnchangedLearning
    /\ UNCHANGED <<reactionRun, lastReaction, inflight>>
    /\ req' = [op |-> "requestConnection", user |-> u, wellFormed |-> FALSE]
    /\ res' = Reply(400, "Invalid connection data", << >>)

(* POST /api/connections up to the insert: the handler parses the body,
   awaits getConnectionByUsers and either answers 400 or goes on to await
   createConnection. *)
RequestConnectionLookup(h, u, to) ==
    /\ inflight[h] = Idle
    /\ UnchangedTables
    /\ UnchangedLearning
    /\ UNCHANGED <<reactionRun, lastReaction>>
    /\ IF getConnectionByUsers(connections, u, to) # {}
       THEN /\ req' = [op |-> "requestConnection", user |-> u, wellFormed |-> TRUE,
                       connectedToId |-> to]
            /\ res' = Reply(400, "Connection already exists", << >>)
            /\ UNCHANGED inflight
       ELSE /\ inflight' = [inflight EXCEPT ![h] =
                               [op |-> "requestConnection", at |-> "createConnection",
                                user |-> u, connectedToId |-> to]]
            /\ UNCHANGED <<req, res>>

(* POST /api/connections: await storage.createConnection(connectionData);
   with the number of stored connections up to which requests are followed *)
RequestConnectionInsertWithin(h, maxConnections) ==
    /\ inflight[h].op = "requestConnection"
    /\ inflight[h].at = "createConnection"
    /\ UnchangedContent
    /\ UnchangedLearning
    /\ Len(connections) < maxConnections
    /\ connections' = createConnection(connections,
          [userId        |-> inflight[h].user,
           connectedToId |-> inflight[h].connectedToId,
           status        |-> "pending"])
    /\ inflight' = [inflight EXCEPT ![h] =
                       [op |-> "requestConnection", at |-> "createNotification",
                        user |-> inflight[h].user,
                        connectedToId |-> inflight[h].connectedToId,
                        connection |-> connections'[Len(connections')]]]
    /\ UNCHANGED <<notifications, req, res>>

RequestConnectionInsert(h) == RequestConnectionInsertWithin(h, MaxConnections)

(* POST /api/connections: await storage.createNotification(...), then the
   201 response with the connection created *)
RequestConnectionNotify(h) ==
    /\ inflight[h].op = "requestConnection"
    /\ inflight[h].at = "createNotification"
    /\ UnchangedContent
    /\ UnchangedLearning
    /\ Len(notifications) < MaxStoredNotifications
    /\ notifications' = createNotification(notifications,
          [userId     |-> inflight[h].connectedToId,
           type       |-> "connection_request",
           fromUserId |-> inflight[h].user,
           entityId   |-> inflight[h].connection.id,
           content    |-> NoContent,
           isRead     |-> FALSE])
    /\ req' = [op |-> "requestConnection", user |-> inflight[h].user,
               wellFormed |-> TRUE, connectedToId |-> inflight[h].connectedToId]
    /\ res' = Reply(201, "", <<inflight[h].connection>>)
    /\ inflight' = [inflight EXCEPT ![h] = Idle]
    /\ UNCHANGED connections

(* PUT /api/connections/:id up to the update: the check of the status given,
   await getConnectionById, the 404 and 403 answers *)
RespondToConnectionLookup(h, u, connectionId, status) ==
    /\ inflight[h] = Idle
    /\ UnchangedTables
    /\ UnchangedLearning
    /\ UNCHANGED <<reactionRun, lastReaction>>
    /\ LET found == getConnectionById(connections, connectionId)
           refusal ==
               IF status \notin {"accepted", "rejected"}
               THEN <<Reply(400, "Invalid status", << >>)>>
               ELSE IF found = {}
               THEN <<Reply(404, "Connection not found", << >>)>>
               ELSE IF ~isRecipient(CHOOSE c \in found : TRUE, u)
               THEN <<Reply(403, "Not authorized to update this connection", << >>)>>
               ELSE << >>
       IN  IF refusal # << >>
           THEN /\ req' = [op |-> "respondToConnection", user |-> u,
                           id |-> connectionId, status |-> status]
                /\ res' = refusal[1]
                /\ UNCHANGED inflight
           ELSE /\ inflight' = [inflight EXCEPT ![h] =
                       [op |-> "respondToConnection", at |-> "updateConnectionStatus",
                        user |-> u, id |-> connectionId, status |-> status,
                        connection |-> CHOOSE c \in found : TRUE]]
                /\ UNCHANGED <<req, res>>

(* PUT /api/connections/:id: await storage.updateConnectionStatus(id,
   status); a rejection is answered here with the updated row, an accept goes
   on to the notification *)
RespondToConnectionUpdate(h) ==
    /\ inflight[h].op = "respondToConnection"
    /\ inflight[h].at = "updateConnectionStatus"
    /\ UnchangedContent
    /\ UnchangedLearning
    /\ UNCHANGED notifications
    /\ LET r == inflight[h]
       IN  /\ connections' = updateConnectionStatus(connections, r.id, r.status)
           /\ IF r.status = "accepted"
              THEN /\ inflight' = [inflight EXCEPT ![h] =
                          [op |-> "respondToConnection", at |-> "createNotification",
                           user |-> r.user, id |-> r.id, status |-> r.status,
                           connection |-> r.connection,
                           updatedConnection |->
                               CHOOSE c \in getConnectionById(connections', r.id) : TRUE]]
                   /\ UNCHANGED <<req, res>>
              ELSE /\ req' = [op |-> "respondToConnection", user |-> r.user,
                              id |-> r.id, status |-> r.status]
                   /\ res' = Reply(200, "", <<CHOOSE c \in getConnectionById(connections', r.id) : TRUE>>)
                   /\ inflight' = [inflight EXCEPT ![h] = Idle]

(* PUT /api/connections/:id: await storage.createNotification(...) for the
   requester, then the answer with the updated row; with the number of stored
   notifications up to which the accept is followed *)
RespondToConnectionNotifyWithin(h, maxNotifications) ==
    /\ inflight[h].op = "respondToConnection"
    /\ inflight[h].at = "createNotification"
    /\ UnchangedContent
    /\ UnchangedLearning
    /\ UNCHANGED connections
    /\ Len(notifications) < maxNotifications
    /\ LET r == inflight[h]
       IN  /\ notifications' = createNotification(notifications,
                 [userId     |-> r.connection.userId,
                  type       |-> "connection_accepted",
                  fromUserId |-> r.user,
                  entityId   |-> r.connection.id,
                  content    |-> NoContent,
                  isRead     |-> FALSE])
           /\ req' = [op |-> "respondToConnection", user |-> r.user,
                      id |-> r.id, status |-> r.status]
           /\ res' = Reply(200, "", <<r.updatedConnection>>)
           /\ inflight' = [inflight EXCEPT ![h] = Idle]

RespondToConnectionNotify(h) ==
    RespondToConnectionNotifyWithin(h, MaxStoredNotifications)

--------------------------------------------------------------------------
(* EngagementAggregator: vibes, likes, comments, messages *)

(* DatabaseStorage.getVibeById *)
getVibeById(table, id) ==
    {v \in Rows(table) : v.id = id}

(* DatabaseStorage.createVibe: db.insert(vibes).values(vibe).returning(),
   with the value the serial gives.  Only the columns the engine reads are
   kept: id, userId (the author), hashtags and createdAt. *)
createVibe(table, vibe, id) ==
    Append(table, [id        |-> id,
                   userId    |-> vibe.userId,
                   hashtags  |-> vibe.hashtags,
                   createdAt |-> id])

(* POST /api/vibes -> DatabaseStorage.createVibe with the hashtags parsed
   from the form, stored as they are given. *)
CreateVibeTagged(u, hashtags) ==
    /\ serial.vibes < MaxVibes
    /\ vibes' = createVibe(vibes, [userId |-> u, hashtags |-> hashtags], serial.vibes + 1)
    /\ serial' = [serial EXCEPT !.vibes = @ + 1]
    /\ req' = [op |-> "createVibe", user |-> u, hashtags |-> hashtags]
    /\ res' = Reply(201, "", <<vibes'[Len(vibes')]>>)
    /\ UNCHANGED <<connections, notifications, likes, comments, messages,
                   reactionRun, lastReaction, inflight>>
    /\ UnchangedLearning

(* POST /api/vibes without hashtags in the form: hashtags = [] *)
CreateVibe(u) == CreateVibeTagged(u, << >>)

(* The tags of requests, and the hashtag arrays of new vibes *)
TagInputs == {"web3", "Web3", "nft"}
HashtagInputs == {<< >>, <<"web3">>, <<"Web3">>, <<"nft", "Web3">>}

(* db.delete(comments).where(eq(comments.vibeId, id)) and
   db.delete(likes).where(eq(likes.vibeId, id)) *)
deleteByVibeId(table, vibeId) ==
    SelectSeq(table, LAMBDA r : r.vibeId # vibeId)

(* db.delete(vibes).where(eq(vibes.id, id)) *)
deleteById(table, id) ==
    SelectSeq(table, LAMBDA r : r.id # id)

(* DELETE /api/vibes/:id up to the deletion: await getVibeById, the 404 and
   403 answers *)
DeleteVibeLookup(h, u, vibeId) ==
    /\ inflight[h] = Idle
    /\ UnchangedTables
    /\ UnchangedLearning
    /\ UNCHANGED <<reactionRun, lastReaction>>
    /\ LET vibe == getVibeById(vibes, vibeId)
       IN  IF vibe = {}
           THEN /\ req' = [op |-> "deleteVibe", user |-> u, vibeId |-> vibeId]
                /\ res' = Reply(404, "Vibe not found", << >>)
                /\ UNCHANGED inflight
           ELSE IF (CHOOSE v \in vibe : TRUE).userId # u
           THEN /\ req' = [op |-> "deleteVibe", user |-> u, vibeId |-> vibeId]
                /\ res' = Reply(403, "Not authorized to delete this vibe", << >>)
                /\ UNCHANGED inflight
           ELSE /\ inflight' = [inflight EXCEPT ![h] =
                       [op |-> "deleteVibe", at |-> "deleteComments",
                        user |-> u, vibeId |-> vibeId]]
                /\ UNCHANGED <<req, res>>

(* DatabaseStorage.deleteVibe, first await: the comments of the vibe *)
DeleteVibeComments(h) ==
    /\ inflight[h].op = "deleteVibe"
    /\ inflight[h].at = "deleteComments"
    /\ UnchangedLearning
    /\ UNCHANGED <<connections, notifications, vibes, likes, messages, serial,
                   reactionRun, lastReaction, req, res>>
    /\ comments' = deleteByVibeId(comments, inflight[h].vibeId)
    /\ inflight' = [inflight EXCEPT ![h] = [@ EXCEPT !.at = "deleteLikes"]]

(* DatabaseStorage.deleteVibe, second await: the likes of the vibe *)
DeleteVibeLikes(h) ==
    /\ inflight[h].op = "deleteVibe"
    /\ inflight[h].at = "deleteLikes"
    /\ UnchangedLearning
    /\ UNCHANGED <<connections, notifications, vibes, comments, messages, serial,
                   reactionRun, lastReaction, req, res>>
    /\ likes' = deleteByVibeId(likes, inflight[h].vibeId)
    /\ inflight' = [inflight EXCEPT ![h] = [@ EXCEPT !.at = "deleteVibe"]]

(* DatabaseStorage.deleteVibe, third await: the vibe, and with it (ON DELETE
   CASCADE of comments.vibe_id and likes.vibe_id) the comments and likes
   stored for it since the two deletions; then the 200 answer *)
DeleteVibeRow(h) ==
    /\ inflight[h].op = "deleteVibe"
    /\ inflight[h].at = "deleteVibe"
    /\ UnchangedLearning
    /\ UNCHANGED <<connections, notifications, messages, serial, reactionRun,
                   lastReaction>>
    /\ vibes' = deleteById(vibes, inflight[h].vibeId)
    /\ comments' = deleteByVibeId(comments, inflight[h].vibeId)
    /\ likes' = deleteByVibeId(likes, inflight[h].vibeId)
    /\ req' = [op |-> "deleteVibe", user |-> inflight[h].user,
               vibeId |-> inflight[h].vibeId]
    /\ res' = Reply(200, "Vibe deleted successfully", << >>)
    /\ inflight' = [inflight EXCEPT ![h] = Idle]

(* DatabaseStorage.getLikeByUserAndVibe: the rows of (userId, vibeId) *)
getLikeByUserAndVibe(table, userId, vibeId) ==
    {l \in Rows(table) : l.userId = userId /\ l.vibeId = vibeId}

(* Mutant: the lookup result is ignored and a row is inserted every time. *)
createOrUpdateLikeAlwaysInsert(table, like, existing, id) ==
    Append(table, [id        |-> id,
                   vibeId    |-> like.vibeId,
                   userId    |-> like.userId,
                   isLike    |-> like.isLike,
                   createdAt |-> id])

(* DatabaseStorage.createOrUpdateLike, after its lookup: `existing` is << >>
   (no row found) or <<row>>.  Update the found row's isLike, else insert
   with the value the serial gives. *)
createOrUpdateLike(table, like, existing, id) ==
    IF existing # << >>
    THEN [i \in 1 .. Len(table) |->
            IF table[i].id = existing[1].id
            THEN [table[i] EXCEPT !.isLike = like.isLike]
            ELSE table[i]]
    ELSE Append(table, [id        |-> id,
                        vibeId    |-> like.vibeId,
                        userId    |-> like.userId,
                        isLike    |-> like.isLike,
                        createdAt |-> id])

(* The rows createOrUpdateLike's statement returns (.returning()): the row
   updated, none when the row found is no longer stored, or the row
   inserted *)
returnedLike(table, like, existing) ==
    IF existing # << >>
    THEN SelectSeq(table, LAMBDA l : l.id = existing[1].id)
    ELSE <<table[Len(table)]>>

(* History bookkeeping: whether request r is a served like request of user u
   for vibe vibeId, and the last three entries of a sequence. *)
SameReactionTarget(r, u, vibeId) ==
    r.op = "setReaction" /\ r.user = u /\ r.vibeId = vibeId /\ res.status = 201

lastThree(s) == IF Len(s) > 3 THEN SubSeq(s, Len(s) - 2, Len(s)) ELSE s

(* POST /api/vibes/:vibeId/like, createOrUpdateLike's first await:
   getLikeByUserAndVibe(like.userId, like.vibeId) *)
SetReactionLookup(h, u, vibeId, isLike) ==
    /\ inflight[h] = Idle
    /\ UnchangedTables
    /\ UnchangedLearning
    /\ UNCHANGED <<reactionRun, lastReaction, req, res>>
    /\ LET found == getLikeByUserAndVibe(likes, u, vibeId)
       IN  \E existing \in (IF found = {} THEN {<< >>} ELSE {<<l>> : l \in found}) :
               inflight' = [inflight EXCEPT ![h] =
                               [op |-> "setReaction", at |-> "write",
                                user |-> u, vibeId |-> vibeId, isLike |-> isLike,
                                existingLike |-> existing]]

(* createOrUpdateLike's second await: the UPDATE of the row found, or the
   INSERT when none was found.  The insert takes a value of the serial and
   fails on likes.vibe_id's foreign key when the vibe is not stored:
   next(error).  With the number of stored likes up to which requests are
   followed. *)
SetReactionWriteWithin(h, maxLikes) ==
    /\ inflight[h].op = "setReaction"
    /\ inflight[h].at = "write"
    /\ UnchangedLearning
    /\ UNCHANGED <<connections, notifications, vibes, comments, messages, reactionRun>>
    /\ LET r == inflight[h]
           likeData == [vibeId |-> r.vibeId, userId |-> r.user, isLike |-> r.isLike]
       IN  IF r.existingLike = << >> /\ getVibeById(vibes, r.vibeId) = {}
           THEN /\ serial.likes < maxLikes + MaxFailedInserts
                /\ serial' = [serial EXCEPT !.likes = @ + 1]
                /\ req' = [op |-> "setReaction", user |-> r.user,
                           vibeId |-> r.vibeId, isLike |-> r.isLike]
                /\ res' = Reply(500, "Internal Server Error", << >>)
                /\ inflight' = [inflight EXCEPT ![h] = Idle]
                /\ UNCHANGED <<likes, lastReaction>>
           ELSE /\ r.existingLike = << >> =>
                      /\ Len(likes) < maxLikes
                      /\ serial.likes < maxLikes + MaxFailedInserts
                /\ likes' = createOrUpdateLike(likes, likeData, r.existingLike,
                                               serial.likes + 1)
                /\ serial' = IF r.existingLike = << >>
                             THEN [serial EXCEPT !.likes = @ + 1] ELSE serial
                /\ lastReaction' =
                      IF /\ r.existingLike # << >>
                         /\ \A l \in Rows(likes) : l.id # r.existingLike[1].id
                      THEN lastReaction
                      ELSE [lastReaction EXCEPT ![<<r.user, r.vibeId>>] =
                               IF r.isLike THEN "like" ELSE "dislike"]
                /\ inflight' = [inflight EXCEPT ![h] =
                       [op |-> "setReaction", at |-> "getVibeById",
                        user |-> r.user, vibeId |-> r.vibeId, isLike |-> r.isLike,
                        like |-> returnedLike(likes', likeData, r.existingLike)]]
                /\ UNCHANGED <<req, res>>

SetReactionWrite(h) == SetReactionWriteWithin(h, MaxLikes)

(* POST /api/vibes/:vibeId/like: await storage.getVibeById(vibeId); the 201
   answer when no notification is due *)
SetReactionGetVibe(h) ==
    /\ inflight[h].op = "setReaction"
    /\ inflight[h].at = "getVibeById"
    /\ UnchangedTables
    /\ UnchangedLearning
    /\ UNCHANGED lastReaction
    /\ LET r == inflight[h]
           vibe == getVibeById(vibes, r.vibeId)
       IN  IF vibe # {} /\ (\E v \in vibe : v.userId # r.user) /\ r.isLike
           THEN /\ inflight' = [inflight EXCEPT ![h] =
                       [op |-> "setReaction", at |-> "createNotification",
                        user |-> r.user, vibeId |-> r.vibeId, isLike |-> r.isLike,
                        like |-> r.like, vibe |-> CHOOSE v \in vibe : TRUE]]
                /\ UNCHANGED <<req, res, reactionRun>>
           ELSE /\ reactionRun' = lastThree(
                       IF SameReactionTarget(req, r.user, r.vibeId)
                       THEN Append(reactionRun, r.isLike) ELSE <<r.isLike>>)
                /\ req' = [op |-> "setReaction", user |-> r.user,
                           vibeId |-> r.vibeId, isLike |-> r.isLike]
                /\ res' = Reply(201, "", r.like)
                /\ inflight' = [inflight EXCEPT ![h] = Idle]

(* POST /api/vibes/:vibeId/like: await storage.createNotification(...) for
   the vibe's author, then the 201 answer *)
SetReactionNotify(h) ==
    /\ inflight[h].op = "setReaction"
    /\ inflight[h].at = "createNotification"
    /\ UnchangedLearning
    /\ UNCHANGED <<connections, vibes, likes, comments, messages, serial, lastReaction>>
    /\ Len(notifications) < MaxStoredNotifications
    /\ LET r == inflight[h]
       IN  /\ notifications' = createNotification(notifications,
                 [userId     |-> r.vibe.userId,
                  type       |-> "like",
                  fromUserId |-> r.user,
                  entityId   |-> r.vibeId,
                  content    |-> NoContent,
                  isRead     |-> FALSE])
           /\ reactionRun' = lastThree(
                  IF SameReactionTarget(req, r.user, r.vibeId)
                  THEN Append(reactionRun, r.isLike) ELSE <<r.isLike>>)
           /\ req' = [op |-> "setReaction", user |-> r.user,
                      vibeId |-> r.vibeId, isLike |-> r.isLike]
           /\ res' = Reply(201, "", r.like)
           /\ inflight' = [inflight EXCEPT ![h] = Idle]

(* Mutant: every reaction row of the vibe counts, the dislikes too. *)
likesCountAnyReaction(likesTable, vibeId) ==
    Cardinality({l \in Rows(likesTable) : l.vibeId = vibeId})

(* count(likes.id) of the left join of a vibe with its likes whose isLike
   is true *)
likesCount(likesTable, vibeId) ==
    Cardinality({l \in Rows(likesTable) : l.vibeId = vibeId /\ l.isLike})

(* The first query of getTrendingVibes: GROUP BY vibes.id ORDER BY
   likes_count DESC LIMIT limit.  Rows of equal count come in no defined
   order, so every set of `limit` ids that no excluded vibe out-counts is a
   possible result. *)
trendingVibeIds(vibesTable, likesTable, limit) ==
    {S \in SUBSET {v.id : v \in Rows(vibesTable)} :
        /\ Cardinality(S) = Min(limit, Len(vibesTable))
        /\ \A a \in S : \A b \in {v.id : v \in Rows(vibesTable)} \ S :
              likesCount(likesTable, a) >= likesCount(likesTable, b)}

(* ORDER BY created_at DESC *)
RECURSIVE orderByCreatedAtDesc(_)
orderByCreatedAtDesc(rows) ==
    IF rows = {} THEN << >>
    ELSE LET newest == CHOOSE r \in rows : \A o \in rows : o.createdAt <= r.createdAt
         IN  <<newest>> \o orderByCreatedAtDesc(rows \ {newest})

(* The second query of getTrendingVibes: the vibes whose id is in vibeIds,
   newest first. *)
getTrendingVibes(vibesTable, vibeIds) ==
    orderByCreatedAtDesc({v \in Rows(vibesTable) : v.id \in vibeIds})

DefaultTrendingLimit == 10

(* GET /api/vibes/trending?limit=q: parseInt(q) || 10 (q = 0 stands for a
   missing or non-numeric parameter too) *)
trendingLimit(q) == IF q = 0 THEN DefaultTrendingLimit ELSE q

(* GET /api/vibes/trending, getTrendingVibes' first await: the ids of the
   most liked vibes; without ids the answer is [] *)
GetTrendingVibesRank(h, q) ==
    /\ inflight[h] = Idle
    /\ UnchangedTables
    /\ UnchangedLearning
    /\ UNCHANGED <<reactionRun, lastReaction>>
    /\ \E vibeIds \in trendingVibeIds(vibes, likes, trendingLimit(q)) :
          IF vibeIds = {}
          THEN /\ req' = [op |-> "getTrendingVibes", limit |-> trendingLimit(q)]
               /\ res' = Reply(200, "", << >>)
               /\ UNCHANGED inflight
          ELSE /\ inflight' = [inflight EXCEPT ![h] =
                      [op |-> "getTrendingVibes", at |-> "selectVibes",
                       limit |-> trendingLimit(q), vibeIds |-> vibeIds]]
               /\ UNCHANGED <<req, res>>

(* GET /api/vibes/trending, getTrendingVibes' second await: the rows of
   these ids, and the answer *)
GetTrendingVibesFetch(h) ==
    /\ inflight[h].op = "getTrendingVibes"
    /\ UnchangedTables
    /\ UnchangedLearning
    /\ UNCHANGED <<reactionRun, lastReaction>>
    /\ req' = [op |-> "getTrendingVibes", limit |-> inflight[h].limit]
    /\ res' = Reply(200, "", getTrendingVibes(vibes, inflight[h].vibeIds))
    /\ inflight' = [inflight EXCEPT ![h] = Idle]

(* DatabaseStorage.getUserConnections.  The query is built with
   .where(or(userId, connectedToId)) and, when a status is given, a second
   .where(eq(status)): drizzle's where() sets the query's one where clause,
   so the second call replaces the first.  "" stands for no status. *)
getUserConnections(table, userId, status) ==
    orderByCreatedAtDesc(
        IF status # ""
        THEN {c \in Rows(table) : c.status = status}
        ELSE {c \in Rows(table) : c.userId = userId \/ c.connectedToId = userId})

StatusFilterInputs == {"", "pending", "accepted", "rejected"}

(* GET /api/connections?status= *)
ListConnections(u, status) ==
    /\ req' = [op |-> "listConnections", user |-> u, status |-> status]
    /\ res' = Reply(200, "", getUserConnections(connections, u, status))
    /\ UnchangedTables
    /\ UnchangedLearning
    /\ UNCHANGED <<reactionRun, lastReaction, inflight>>

(* DatabaseStorage.getVibesByHashtag: WHERE hashtags @> ARRAY[hashtag]::text[]
   (array containment, text equality) ORDER BY created_at DESC *)
getVibesByHashtag(table, hashtag) ==
    orderByCreatedAtDesc(
        {v \in Rows(table) : \E i \in 1 .. Len(v.hashtags) : v.hashtags[i] = hashtag})

(* GET /api/vibes/hashtag/:hashtag *)
GetVibesByHashtag(hashtag) ==
    /\ req' = [op |-> "getVibesByHashtag", hashtag |-> hashtag]
    /\ res' = Reply(200, "", getVibesByHashtag(vibes, hashtag))
    /\ UnchangedTables
    /\ UnchangedLearning
    /\ UNCHANGED <<reactionRun, lastReaction, inflight>>

(* The texts of comments and messages: sequences of characters. *)
SnippetLen == 50
Text(n) == [i \in 1 .. n |-> "a"]
Contents == {Text(2), Text(SnippetLen + 1)}

(* String.prototype.substring(0, n) *)
substring0(s, n) == SubSeq(s, 1, Min(n, Len(s)))

(* DatabaseStorage.createComment, with the value the serial gives *)
createComment(table, comment, id) ==
    Append(table, [id        |-> id,
                   vibeId    |-> comment.vibeId,
                   userId    |-> comment.userId,
                   content   |-> comment.content,
                   createdAt |-> id])

(* POST /api/vibes/:vibeId/comments: await storage.createComment(...).  The
   insert takes a value of the serial and fails on comments.vibe_id's
   foreign key when the vibe is not stored: next(error). *)
AddCommentInsert(h, u, vibeId, content) ==
    /\ inflight[h] = Idle
    /\ UnchangedLearning
    /\ UNCHANGED <<connections, notifications, vibes, likes, messages,
                   reactionRun, lastReaction>>
    /\ serial.comments < MaxComments + MaxFailedInserts
    /\ serial' = [serial EXCEPT !.comments = @ + 1]
    /\ IF getVibeById(vibes, vibeId) = {}
       THEN /\ req' = [op |-> "addComment", user |-> u, vibeId |-> vibeId,
                       content |-> content]
            /\ res' = Reply(500, "Internal Server Error", << >>)
            /\ UNCHANGED <<comments, inflight>>
       ELSE /\ Len(comments) < MaxComments
            /\ comments' = createComment(comments,
                  [vibeId |-> vibeId, userId |-> u, content |-> content],
                  serial.comments + 1)
            /\ inflight' = [inflight EXCEPT ![h] =
                   [op |-> "addComment", at |-> "getVibeById",
                    user |-> u, vibeId |-> vibeId, content |-> content,
                    comment |-> comments'[Len(comments')]]]
            /\ UNCHANGED <<req, res>>

(* POST /api/vibes/:vibeId/comments: await storage.getVibeById(vibeId); the
   201 answer when no notification is due *)
AddCommentGetVibe(h) ==
    /\ inflight[h].op = "addComment"
    /\ inflight[h].at = "getVibeById"
    /\ UnchangedTables
    /\ UnchangedLearning
    /\ UNCHANGED <<reactionRun, lastReaction>>
    /\ LET r == inflight[h]
           vibe == getVibeById(vibes, r.vibeId)
       IN  IF vibe # {} /\ (\E v \in vibe : v.userId # r.user)
           THEN /\ inflight' = [inflight EXCEPT ![h] =
                       [op |-> "addComment", at |-> "createNotification",
                        user |-> r.user, vibeId |-> r.vibeId, content |-> r.content,
                        comment |-> r.comment, vibe |-> CHOOSE v \in vibe : TRUE]]
                /\ UNCHANGED <<req, res>>
           ELSE /\ req' = [op |-> "addComment", user |-> r.user, vibeId |-> r.vibeId,
                           content |-> r.content]
                /\ res' = Reply(201, "", <<r.comment>>)
                /\ inflight' = [inflight EXCEPT ![h] = Idle]

(* POST /api/vibes/:vibeId/comments: await storage.createNotification(...)
   for the vibe's author with content: req.body.content, then the 201
   answer *)
AddCommentNotify(h) ==
    /\ inflight[h].op = "addComment"
    /\ inflight[h].at = "createNotification"
    /\ UnchangedContent
    /\ UnchangedLearning
    /\ UNCHANGED connections
    /\ Len(notifications) < MaxStoredNotifications
    /\ LET r == inflight[h]
       IN  /\ notifications' = createNotification(notifications,
                 [userId     |-> r.vibe.userId,
                  type       |-> "comment",
                  fromUserId |-> r.user,
                  entityId   |-> r.vibeId,
                  content    |-> r.content,
                  isRead     |-> FALSE])
           /\ req' = [op |-> "addComment", user |-> r.user, vibeId |-> r.vibeId,
                      content |-> r.content]
           /\ res' = Reply(201, "", <<r.comment>>)
           /\ inflight' = [inflight EXCEPT ![h] = Idle]

(* Mutant: the flag is flipped instead of set. *)
markNotificationAsReadToggling(table, id) ==
    [i \in 1 .. Len(table) |->
        IF table[i].id = id
        THEN [table[i] EXCEPT !.isRead = ~table[i].isRead]
        ELSE table[i]]

(* DatabaseStorage.markNotificationAsRead: UPDATE notifications SET is_read =
   true WHERE id *)
markNotificationAsRead(table, id) ==
    [i \in 1 .. Len(table) |->
        IF table[i].id = id
        THEN [table[i] EXCEPT !.isRead = TRUE]
        ELSE table[i]]

NotificationIdInputs == 1 .. MaxStoredNotifications + 1

(* PUT /api/notifications/:id/read: answers with the updated row, with
   nothing when no row has the id. *)
MarkNotificationAsRead(u, id) ==
    /\ UnchangedContent
    /\ UnchangedLearning
    /\ UNCHANGED <<connections, inflight>>
    /\ req' = [op |-> "markNotificationAsRead", user |-> u, id |-> id]
    /\ notifications' = markNotificationAsRead(notifications, id)
    /\ res' = Reply(200, "", SelectSeq(notifications', LAMBDA n : n.id = id))

(* DatabaseStorage.createMessage *)
createMessage(table, message) ==
    Append(table, [id         |-> nextval(table),
                   senderId   |-> message.senderId,
                   receiverId |-> message.receiverId,
                   content    |-> message.content,
                   isRead     |-> FALSE,
                   createdAt  |-> nextval(table)])

(* POST /api/messages: await storage.createMessage(messageData) *)
SendMessageInsert(h, u, receiverId, content) ==
    /\ inflight[h] = Idle
    /\ UnchangedLearning
    /\ UNCHANGED <<connections, notifications, vibes, likes, comments, serial,
                   reactionRun, lastReaction, req, res>>
    /\ Len(messages) < MaxMessages
    /\ messages' = createMessage(messages,
          [senderId |-> u, receiverId |-> receiverId, content |-> content])
    /\ inflight' = [inflight EXCEPT ![h] =
           [op |-> "sendMessage", at |-> "createNotification",
            user |-> u, receiverId |-> receiverId, content |-> content,
            message |-> messages'[Len(messages')]]]

(* POST /api/messages: await storage.createNotification(...) for the
   receiver with content: req.body.content.substring(0, 50), then the 201
   answer *)
SendMessageNotify(h) ==
    /\ inflight[h].op = "sendMessage"
    /\ UnchangedContent
    /\ UnchangedLearning
    /\ UNCHANGED connections
    /\ Len(notifications) < MaxStoredNotifications
    /\ LET r == inflight[h]
       IN  /\ notifications' = createNotification(notifications,
                 [userId     |-> r.receiverId,
                  type       |-> "message",
                  fromUserId |-> r.user,
                  entityId   |-> r.message.id,
                  content    |-> substring0(r.content, SnippetLen),
                  isRead     |-> FALSE])
           /\ req' = [op |-> "sendMessage", user |-> r.user,
                      receiverId |-> r.receiverId, content |-> r.content]
           /\ res' = Reply(201, "", <<r.message>>)
           /\ inflight' = [inflight EXCEPT ![h] = Idle]

(* Mutant: the rows are passed on whoever they are addressed to. *)
ownedByAnyone(rows, userId) == rows

(* results.filter(notification => notification.userId === userId), in
   getUserNotifications and again in the route *)
ownedBy(rows, userId) ==
    SelectSeq(rows, LAMBDA n : n.userId = userId)

(* req.query.isRead: "true" is true, "false" is false, anything else (the
   parameter left out included) is undefined; << >> stands for undefined. *)
IsReadQueryInputs == {"", "true", "false", "1"}
parseIsRead(q) ==
    IF q = "true" THEN <<TRUE>> ELSE IF q = "false" THEN <<FALSE>> ELSE << >>

(* DatabaseStorage.getUserNotifications: .where(userId), replaced by
   .where(isRead) when isRead is given (the query builder keeps one where
   clause, the last set), ORDER BY created_at DESC, then the filter on
   userId over the rows returned. *)
getUserNotifications(table, userId, isRead) ==
    LET selected == IF isRead # << >>
                    THEN {n \in Rows(table) : n.isRead = isRead[1]}
                    ELSE {n \in Rows(table) : n.userId = userId}
    IN  ownedBy(orderByCreatedAtDesc(selected), userId)

(* GET /api/notifications?isRead= *)
ListNotifications(u, q) ==
    /\ req' = [op |-> "listNotifications", user |-> u, isRead |-> q]
    /\ res' = Reply(200, "",
                    ownedBy(getUserNotifications(notifications, u, parseIsRead(q)), u))
    /\ UnchangedTables
    /\ UnchangedLearning
    /\ UNCHANGED <<reactionRun, lastReaction, inflight>>

--------------------------------------------------------------------------
(* ProgressionEngine.  The routes are in server/routes.ts.  The storage
   methods they call (getUserLevel, createUserLevel, completeUserQuest,
   getQuestById, completeUserLearningModule, getLearningModuleById,
   addUserXp) and incrementUserAchievementProgress are declared in IStorage,
   and DatabaseStorage, the class of the storage object, defines none of
   them: storage.<method> is undefined, the call throws a TypeError
   ("storage.<method> is not a function") before anything is awaited, and
   the route's catch hands it to next(error), which answers 500.  No row of
   the four tables of the engine is ever written. *)

(* Rows of table quests, learning_modules and achievements (static
   definitions).  xp_reward defaults to 50 (quests) and 100 (modules),
   required_progress to 1; xp_reward is an integer column without a check
   constraint, so a definition may carry a negative reward. *)
quests == <<[id |-> 1, xpReward |-> 50], [id |-> 2, xpReward |-> 0],
            [id |-> 3, xpReward |-> -50]>>
learningModules == <<[id |-> 1, xpReward |-> 100]>>
achievements == <<[id |-> 1, requiredProgress |-> 1], [id |-> 2, requiredProgress |-> 3]>>

QuestIdInputs == {1, 2, 3, 4}
ModuleIdInputs == {1, 2}
AchievementIdInputs == {1, 2, 3}
AmountInputs == {1, 2}

(* The answer to a request whose handler threw: next(error) *)
notAFunction(method) == Reply(500, method \o " is not a function", << >>)

(* GET /api/learning/level: storage.getUserLevel(userId) throws *)
GetUserLevel(u) ==
    /\ UnchangedTables
    /\ UnchangedLearning
    /\ UNCHANGED <<reactionRun, lastReaction, inflight>>
    /\ req' = [op |-> "getUserLevel", user |-> u]
    /\ res' = notAFunction("storage.getUserLevel")

(* POST /api/learning/quests/:questId/complete:
   storage.completeUserQuest(userId, questId) throws *)
CompleteQuest(u, questId) ==
    /\ UnchangedTables
    /\ UnchangedLearning
    /\ UNCHANGED <<reactionRun, lastReaction, inflight>>
    /\ req' = [op |-> "completeQuest", user |-> u, questId |-> questId]
    /\ res' = notAFunction("storage.completeUserQuest")

(* POST /api/learning/modules/:moduleId/complete:
   storage.completeUserLearningModule(userId, moduleId) throws *)
CompleteModule(u, moduleId) ==
    /\ UnchangedTables
    /\ UnchangedLearning
    /\ UNCHANGED <<reactionRun, lastReaction, inflight>>
    /\ req' = [op |-> "completeModule", user |-> u, moduleId |-> moduleId]
    /\ res' = notAFunction("storage.completeUserLearningModule")

(* A call of storage.incrementUserAchievementProgress(userId, achievementId,
   amount): it throws (no route makes the call) *)
IncrementAchievementProgress(u, achievementId, amount) ==
    /\ UnchangedTables
    /\ UnchangedLearning
    /\ UNCHANGED <<reactionRun, lastReaction, inflight>>
    /\ req' = [op |-> "incrementAchievementProgress", user |-> u,
               achievementId |-> achievementId, amount |-> amount]
    /\ res' = notAFunction("storage.incrementUserAchievementProgress")

(* The learn page (client).  Its quests are the constant array of the page:
   id, xpReward, completed, locked. *)
pageQuests ==
    <<[id |-> 1, xpReward |-> 50,  completed |-> TRUE,  locked |-> FALSE],
      [id |-> 2, xpReward |-> 100, completed |-> TRUE,  locked |-> FALSE],
      [id |-> 3, xpReward |-> 75,  completed |-> TRUE,  locked |-> FALSE],
      [id |-> 4, xpReward |-> 125, completed |-> FALSE, locked |-> FALSE],
      [id |-> 5, xpReward |-> 150, completed |-> FALSE, locked |-> TRUE]>>

(* useState's initial userProgress (the fields claimQuestReward touches) *)
initialUserProgress ==
    [level |-> 2, xp |-> 150, xpForNextLevel |-> 200, completedQuests |-> 3]

(* claimQuestReward: the level after the award *)
leveledUp(prev, quest) ==
    IF prev.xp + quest.xpReward >= prev.xpForNextLevel
    THEN prev.level + 1 ELSE prev.level

(* claimQuestReward: the state setUserProgress installs; a completed or a
   locked quest only shows a toast. *)
claimQuestReward(prev, quest) ==
    IF quest.completed \/ quest.locked
    THEN prev
    ELSE [prev EXCEPT !.xp = prev.xp + quest.xpReward,
                      !.completedQuests = prev.completedQuests + 1,
                      !.level = leveledUp(prev, quest)]

(* The toast claimQuestReward shows *)
claimToast(quest) ==
    IF quest.completed THEN "Already claimed"
    ELSE IF quest.locked THEN "Quest locked"
    ELSE "Quest completed!"

(* A click on a quest's claim button.  The quests array is rebuilt on every
   render and updatedQuests is dropped, so quest.completed stays as it is. *)
ClaimQuestReward(u, i) ==
    /\ UnchangedTables
    /\ UNCHANGED <<userQuestProgress, userLearningProgress, userAchievementProgress,
                   userLevel, reactionRun, lastReaction, inflight>>
    /\ userProgress' = [userProgress EXCEPT ![u] = claimQuestReward(@, pageQuests[i])]
    /\ userProgress'[u].completedQuests
          <= initialUserProgress.completedQuests + MaxClaims
    /\ req' = [op |-> "claimQuestReward", user |-> u, questId |-> pageQuests[i].id]
    /\ res' = Reply(0, claimToast(pageQuests[i]), << >>)

--------------------------------------------------------------------------

Init ==
    /\ connections = << >>
    /\ notifications = << >>
    /\ vibes = << >>
    /\ likes = << >>
    /\ comments = << >>
    /\ messages = << >>
    /\ serial = [vibes |-> 0, likes |-> 0, comments |-> 0]
    /\ userQuestProgress = << >>
    /\ userLearningProgress = << >>
    /\ userAchievementProgress = << >>
    /\ userLevel = << >>
    /\ userProgress = [u \in ActiveUsers |-> initialUserProgress]
    /\ req = [op |-> "none"]
    /\ res = Reply(0, "", << >>)
    /\ reactionRun = << >>
    /\ inflight = [h \in Handlers |-> Idle]
    /\ lastReaction = [p \in Users \X (VibeIds) |-> "none"]

(* Every handler, with every input, served at the same time as the others *)
Next ==
    \/ \E u \in Users : RequestConnectionMalformed(u)
    \/ \E h \in Handlers, u \in Users, to \in Users : RequestConnectionLookup(h, u, to)
    \/ \E h \in Handlers : RequestConnectionInsert(h)
    \/ \E h \in Handlers : RequestConnectionNotify(h)
    \/ \E h \in Handlers, u \in Users, id \in ConnectionIds, status \in StatusInputs :
          FreeHandler(h) /\ RespondToConnectionLookup(h, u, id, status)
    \/ \E h \in Handlers : RespondToConnectionUpdate(h)
    \/ \E h \in Handlers : RespondToConnectionNotify(h)
    \/ \E u \in Users, status \in StatusFilterInputs : ListConnections(u, status)
    \/ \E u \in Users, hashtags \in HashtagInputs : CreateVibeTagged(u, hashtags)
    \/ \E h \in Handlers, u \in Users, vibeId \in VibeIds : DeleteVibeLookup(h, u, vibeId)
    \/ \E h \in Handlers : DeleteVibeComments(h)
    \/ \E h \in Handlers : DeleteVibeLikes(h)
    \/ \E h \in Handlers : DeleteVibeRow(h)
    \/ \E hashtag \in TagInputs : GetVibesByHashtag(hashtag)
    \/ \E h \in Handlers, u \in Users, vibeId \in VibeIds, isLike \in BOOLEAN :
          SetReactionLookup(h, u, vibeId, isLike)
    \/ \E h \in Handlers : SetReactionWrite(h)
    \/ \E h \in Handlers : SetReactionGetVibe(h)
    \/ \E h \in Handlers : SetReactionNotify(h)
    \/ \E h \in Handlers, q \in 0 .. MaxVibes : GetTrendingVibesRank(h, q)
    \/ \E h \in Handlers : GetTrendingVibesFetch(h)
    \/ \E h \in Handlers, u \in Users, vibeId \in VibeIds, content \in Contents :
          FreeHandler(h) /\ AddCommentInsert(h, u, vibeId, content)
    \/ \E h \in Handlers : AddCommentGetVibe(h)
    \/ \E h \in Handlers : AddCommentNotify(h)
    \/ \E h \in Handlers, u \in Users, to \in Users, content \in Contents :
          FreeHandler(h) /\ SendMessageInsert(h, u, to, content)
    \/ \E h \in Handlers : SendMessageNotify(h)
    \/ \E u \in Users, id \in NotificationIdInputs : MarkNotificationAsRead(u, id)
    \/ \E u \in Users, q \in IsReadQueryInputs : ListNotifications(u, q)
    \/ \E u \in Users : GetUserLevel(u)
    \/ \E u \in Users, questId \in QuestIdInputs : CompleteQuest(u, questId)
    \/ \E u \in Users, moduleId \in ModuleIdInputs : CompleteModule(u, moduleId)
    \/ \E u \in Users, achievementId \in AchievementIdInputs, amount \in AmountInputs :
          IncrementAchievementProgress(u, achievementId, amount)
    \/ \E u \in ActiveUsers, i \in 1 .. Len(pageQuests) : ClaimQuestReward(u, i)

Spec == Init /\ [][Next]_vars

(* The specifications below restrict Next to the handlers of one component.
   In those named "one at a time" every request is served by FirstHandler:
   a request starts when the one before it has been answered. *)

(* The connection routes, served at the same time *)
NextConn ==
    \/ \E h \in Handlers, u \in ActiveUsers, to \in ActiveUsers :
          FreeHandler(h) /\ RequestConnectionLookup(h, u, to)
    \/ \E h \in Handlers : RequestConnectionInsert(h)
    \/ \E h \in Handlers : RequestConnectionNotify(h)
    \/ \E h \in Handlers, u \in ActiveUsers, id \in ConnectionIds,
          status \in {"accepted", "rejected"} :
          FreeHandler(h) /\ RespondToConnectionLookup(h, u, id, status)
    \/ \E h \in Handlers : RespondToConnectionUpdate(h)
    \/ \E h \in Handlers : RespondToConnectionNotify(h)

SpecConn == Init /\ [][NextConn]_vars

(* The connection routes, one at a time *)
NextConnOneAtATime ==
    \/ \E u \in Users : NoneInFlight /\ RequestConnectionMalformed(u)
    \/ \E u \in Users, to \in Users : RequestConnectionLookup(FirstHandler, u, to)
    \/ RequestConnectionInsert(FirstHandler)
    \/ RequestConnectionNotify(FirstHandler)
    \/ \E u \in Users, id \in ConnectionIds, status \in StatusInputs :
          RespondToConnectionLookup(FirstHandler, u, id, status)
    \/ RespondToConnectionUpdate(FirstHandler)
    \/ RespondToConnectionNotify(FirstHandler)

SpecConnOneAtATime == Init /\ [][NextConnOneAtATime]_vars

(* Requests, answers and the listing of connections, one at a time *)
NextConnList ==
    \/ \E u \in Users, to \in Users : RequestConnectionLookup(FirstHandler, u, to)
    \/ RequestConnectionInsert(FirstHandler)
    \/ RequestConnectionNotify(FirstHandler)
    \/ \E u \in Users, id \in ConnectionIds, status \in {"accepted", "rejected"} :
          RespondToConnectionLookup(FirstHandler, u, id, status)
    \/ RespondToConnectionUpdate(FirstHandler)
    \/ RespondToConnectionNotify(FirstHandler)
    \/ \E u \in Users, status \in StatusFilterInputs :
          NoneInFlight /\ ListConnections(u, status)

SpecConnList == Init /\ [][NextConnList]_vars

(* The producers of notifications of messages and connections, served at the
   same time *)
NextNotify ==
    \/ \E h \in Handlers, u \in ActiveUsers, to \in ActiveUsers, content \in Contents :
          FreeHandler(h) /\ SendMessageInsert(h, u, to, content)
    \/ \E h \in Handlers : SendMessageNotify(h)
    \/ \E h \in Handlers, u \in ActiveUsers, to \in ActiveUsers :
          FreeHandler(h) /\ RequestConnectionLookup(h, u, to)
    \/ \E h \in Handlers : RequestConnectionInsert(h)
    \/ \E h \in Handlers : RequestConnectionNotify(h)
    \/ \E h \in Handlers, u \in ActiveUsers, id \in ConnectionIds,
          status \in {"accepted", "rejected"} :
          FreeHandler(h) /\ RespondToConnectionLookup(h, u, id, status)
    \/ \E h \in Handlers : RespondToConnectionUpdate(h)
    \/ \E h \in Handlers : RespondToConnectionNotify(h)

SpecNotify == Init /\ [][NextNotify]_vars

(* Producers of notifications and the marking of notifications as read, one
   at a time *)
NextRead ==
    \/ \E u \in ActiveUsers, to \in ActiveUsers, content \in Contents :
          SendMessageInsert(FirstHandler, u, to, content)
    \/ SendMessageNotify(FirstHandler)
    \/ \E u \in ActiveUsers, to \in ActiveUsers :
          RequestConnectionLookup(FirstHandler, u, to)
    \/ RequestConnectionInsert(FirstHandler)
    \/ RequestConnectionNotify(FirstHandler)
    \/ \E u \in ActiveUsers, id \in NotificationIdInputs :
          NoneInFlight /\ MarkNotificationAsRead(u, id)

SpecRead == Init /\ [][NextRead]_vars

(* The notification listing, with messages and connection requests to fill
   the inboxes, one at a time *)
NextInbox ==
    \/ \E u \in ActiveUsers, to \in ActiveUsers :
          SendMessageInsert(FirstHandler, u, to, Text(2))
    \/ SendMessageNotify(FirstHandler)
    \/ \E u \in ActiveUsers, to \in ActiveUsers :
          RequestConnectionLookup(FirstHandler, u, to)
    \/ RequestConnectionInsert(FirstHandler)
    \/ RequestConnectionNotify(FirstHandler)
    \/ \E u \in ActiveUsers, id \in NotificationIdInputs :
          NoneInFlight /\ MarkNotificationAsRead(u, id)
    \/ \E u \in ActiveUsers, q \in IsReadQueryInputs :
          NoneInFlight /\ ListNotifications(u, q)

SpecInbox == Init /\ [][NextInbox]_vars

(* The routes of the ProgressionEngine and the learn page *)
NextLearning ==
    \/ \E u \in ActiveUsers : GetUserLevel(u)
    \/ \E u \in ActiveUsers, questId \in QuestIdInputs : CompleteQuest(u, questId)
    \/ \E u \in ActiveUsers, moduleId \in ModuleIdInputs : CompleteModule(u, moduleId)
    \/ \E u \in ActiveUsers, achievementId \in AchievementIdInputs, amount \in AmountInputs :
          IncrementAchievementProgress(u, achievementId, amount)
    \/ \E u \in ActiveUsers, i \in 1 .. Len(pageQuests) : ClaimQuestReward(u, i)

SpecLearning == Init /\ [][NextLearning]_vars

(* Posting and liking, one at a time *)
NextReaction ==
    \/ \E u \in Authors : NoneInFlight /\ CreateVibe(u)
    \/ \E u \in ActiveUsers, vibeId \in VibeIds, isLike \in BOOLEAN :
          SetReactionLookup(FirstHandler, u, vibeId, isLike)
    \/ SetReactionWrite(FirstHandler)
    \/ SetReactionGetVibe(FirstHandler)
    \/ SetReactionNotify(FirstHandler)

SpecReaction == Init /\ [][NextReaction]_vars

(* Posting, liking and the trending list, one at a time.  The authors like
   and dislike their vibes (no notification is due, the like request is
   answered after getVibeById), followed one row further than MaxLikes: a
   liked vibe and a disliked one are stored together. *)
MaxTrendingLikes == MaxLikes + 1

NextTrending ==
    \/ \E u \in Authors : NoneInFlight /\ CreateVibe(u)
    \/ \E u \in Authors, vibeId \in VibeIds, isLike \in BOOLEAN :
          SetReactionLookup(FirstHandler, u, vibeId, isLike)
    \/ SetReactionWriteWithin(FirstHandler, MaxTrendingLikes)
    \/ SetReactionGetVibe(FirstHandler)
    \/ \E q \in 0 .. MaxVibes : GetTrendingVibesRank(FirstHandler, q)
    \/ GetTrendingVibesFetch(FirstHandler)

SpecTrending == Init /\ [][NextTrending]_vars

NextHashtag ==
    \/ \E u \in ActiveUsers, hashtags \in HashtagInputs : CreateVibeTagged(u, hashtags)
    \/ \E hashtag \in TagInputs : GetVibesByHashtag(hashtag)

SpecHashtag == Init /\ [][NextHashtag]_vars

(* The routes that store a text and notify about it, served at the same
   time *)
NextSnippet ==
    \/ \E u \in ActiveUsers : CreateVibe(u)
    \/ \E h \in Handlers, u \in ActiveUsers, vibeId \in VibeIds, content \in Contents :
          FreeHandler(h) /\ AddCommentInsert(h, u, vibeId, content)
    \/ \E h \in Handlers : AddCommentGetVibe(h)
    \/ \E h \in Handlers : AddCommentNotify(h)
    \/ \E h \in Handlers, u \in ActiveUsers, to \in ActiveUsers, content \in Contents :
          FreeHandler(h) /\ SendMessageInsert(h, u, to, content)
    \/ \E h \in Handlers : SendMessageNotify(h)

SpecSnippet == Init /\ [][NextSnippet]_vars

(* Connection requests served at the same time.  Two requests that both
   pass the lookup store two rows and two notifications, so they are
   followed one row and one notification further than the bounds. *)
MaxRaceConnections == MaxConnections + 1

NextConnRace ==
    \/ \E h \in Handlers, u \in ActiveUsers, to \in ActiveUsers :
          FreeHandler(h) /\ RequestConnectionLookup(h, u, to)
    \/ \E h \in Handlers : RequestConnectionInsertWithin(h, MaxRaceConnections)
    \/ \E h \in Handlers : RequestConnectionNotify(h)

SpecConnRace == Init /\ [][NextConnRace]_vars

(* Like requests served at the same time, followed one row further than
   MaxLikes *)
MaxRaceLikes == MaxLikes + 1
RaceVibeIds == {1}

NextReactionRace ==
    \/ \E u \in Authors : CreateVibe(u)
    \/ \E h \in Handlers, u \in ActiveUsers, vibeId \in RaceVibeIds, isLike \in BOOLEAN :
          FreeHandler(h) /\ SetReactionLookup(h, u, vibeId, isLike)
    \/ \E h \in Handlers : SetReactionWriteWithin(h, MaxRaceLikes)
    \/ \E h \in Handlers : SetReactionGetVibe(h)
    \/ \E h \in Handlers : SetReactionNotify(h)

SpecReactionRace == Init /\ [][NextReactionRace]_vars

(* Repeated answers to one connection, one at a time.  A connection that is
   answered twice has three notifications (its request and two answers), so
   the accepts are followed one notification further than
   MaxStoredNotifications. *)
MaxAcceptNotifications == MaxStoredNotifications + 1

NextRespondAgain ==
    \/ \E u \in ActiveUsers, to \in ActiveUsers : RequestConnectionLookup(FirstHandler, u, to)
    \/ RequestConnectionInsert(FirstHandler)
    \/ RequestConnectionNotify(FirstHandler)
    \/ \E u \in ActiveUsers, id \in ConnectionIds, status \in {"accepted", "rejected"} :
          RespondToConnectionLookup(FirstHandler, u, id, status)
    \/ RespondToConnectionUpdate(FirstHandler)
    \/ RespondToConnectionNotifyWithin(FirstHandler, MaxAcceptNotifications)

SpecRespondAgain == Init /\ [][NextRespondAgain]_vars

--------------------------------------------------------------------------
(* Steps, by what they do to the handlers.  A request is answered at once
   (no handler is left serving it: inflight is as it was, req and res are
   those of the request), or it is taken up by a handler that goes on
   (Starts), moves on from one await to the next, and is answered when its
   handler is idle again (Finishes). *)

AnsweredAtOnce(op) == inflight' = inflight /\ req'.op = op

Starts(h, op) ==
    /\ inflight[h] = Idle
    /\ inflight'[h] # Idle
    /\ inflight'[h].op = op

Finishes(h, op) ==
    /\ inflight[h].op = op
    /\ inflight'[h] = Idle

StepOf(h, op) ==
    /\ inflight[h].op = op
    /\ inflight'[h] # inflight[h]

(* The notifications a step has added *)
NewNotifications ==
    SubSeq(notifications', Len(notifications) + 1, Len(notifications'))

--------------------------------------------------------------------------
(* Properties of ConnectionGraph with the requests issued one at a time,
   checked under SpecConnOneAtATime *)

SamePair(c, d) == c.userId = d.userId /\ c.connectedToId = d.connectedToId

AtMostOneConnectionPerPair ==
    \A i, j \in 1 .. Len(connections) :
        SamePair(connections[i], connections[j]) => i = j

PairHasRow(u, to) ==
    \E c \in Rows(connections) : c.userId = u /\ c.connectedToId = to

(* The step takes up the well-formed connection request of u for `to`:
   its lookup runs, and the request is refused at once or goes on to the
   insert. *)
RequestArrives(u, to) ==
    \/ /\ AnsweredAtOnce("requestConnection")
       /\ req'.wellFormed
       /\ req'.user = u
       /\ req'.connectedToId = to
    \/ \E h \in Handlers :
          /\ Starts(h, "requestConnection")
          /\ inflight'[h].user = u
          /\ inflight'[h].connectedToId = to

(* The request the step takes up is refused with "Connection already
   exists" and nothing is stored for it. *)
RefusedAsExisting ==
    /\ inflight' = inflight
    /\ res'.status = 400
    /\ res'.message = "Connection already exists"
    /\ connections' = connections
    /\ notifications' = notifications

(* C1: with the requests issued one at a time, at most one Connection row
   exists per ordered (requesterId, recipientId) pair, and a second
   requestConnection of two distinct users for a pair that has a row is
   answered with the conflict error ("Connection already exists") and
   creates no row and no notification. *)
C1_OneConnectionPerOrderedPair ==
    /\ []AtMostOneConnectionPerPair
    /\ [][\A u \in Users, to \in Users :
            (u # to /\ PairHasRow(u, to) /\ RequestArrives(u, to))
                => RefusedAsExisting]_vars

(* A second request for a pair of distinct users was refused, and the pair
   has its one row. *)
C1_Witness_SecondRequestRefused ==
    /\ req.op = "requestConnection"
    /\ req.wellFormed
    /\ req.user # req.connectedToId
    /\ res.status = 400
    /\ res.message = "Connection already exists"
    /\ NoneInFlight
    /\ Cardinality({i \in 1 .. Len(connections) :
                      /\ connections[i].userId = req.user
                      /\ connections[i].connectedToId = req.connectedToId}) = 1

(* The step takes up the answer (accepted or rejected) of user u to
   connection id. *)
RespondArrives(u, id, status) ==
    \/ /\ AnsweredAtOnce("respondToConnection")
       /\ req'.user = u
       /\ req'.id = id
       /\ req'.status = status
    \/ \E h \in Handlers :
          /\ Starts(h, "respondToConnection")
          /\ inflight'[h].user = u
          /\ inflight'[h].id = id
          /\ inflight'[h].status = status

(* C2: a Connection's status changes only pending -> accepted or pending ->
   rejected and is terminal thereafter: a respond call by the recipient on a
   connection already accepted or rejected fails (an error response) and
   leaves every status as it was. *)
C2_StatusTerminal ==
    /\ [][\A c \in Rows(connections) :
            c.status # "pending"
                => \E d \in Rows(connections') : d.id = c.id /\ d.status = c.status]_vars
    /\ [][\A u \in Users, status \in {"accepted", "rejected"} :
            \A c \in Rows(connections) :
                (/\ c.connectedToId = u
                 /\ c.status # "pending"
                 /\ RespondArrives(u, c.id, status))
                    => /\ inflight' = inflight
                       /\ res'.status >= 400
                       /\ connections' = connections]_vars

(* C3: respondToConnection by any user other than the connection's recipient
   (the requester included) is answered 403 (forbidden), leaves the
   connection's status as it was (pending stays pending) and creates no
   notification. *)
C3_NonRecipientForbidden ==
    [][\A u \in Users, status \in {"accepted", "rejected"} :
          \A c \in Rows(connections) :
              (c.connectedToId # u /\ RespondArrives(u, c.id, status))
                  => /\ inflight' = inflight
                     /\ res'.status = 403
                     /\ connections' = connections
                     /\ notifications' = notifications]_vars

(* The requester of a pending connection tried to accept it and was refused. *)
C3_Witness_RequesterRefused ==
    /\ req.op = "respondToConnection"
    /\ req.status = "accepted"
    /\ res.status = 403
    /\ NoneInFlight
    /\ \E c \in getConnectionById(connections, req.id) :
          /\ c.userId = req.user
          /\ c.connectedToId # req.user
          /\ c.status = "pending"

(* C10: requestConnection with requesterId = recipientId fails with a
   validation error (a 400 response) and creates neither a Connection nor a
   Notification. *)
C10_SelfRequestRejected ==
    /\ [](\A c \in Rows(connections) : c.userId # c.connectedToId)
    /\ [][\A u \in Users :
            RequestArrives(u, u)
                => /\ inflight' = inflight
                   /\ res'.status = 400
                   /\ connections' = connections
                   /\ notifications' = notifications]_vars

(* C26: once an ordered pair (a, b) has a connection, in any status, the
   rejected one included, every later request of a for b is refused and
   creates no connection; and nothing re-opens or replaces the row: it stays
   in the table under its id with its two parties, and a row that has left
   the pending status never is pending again. *)
C26_ExistingConnectionBlocksForever ==
    [][/\ \A u \in Users, to \in Users :
             (PairHasRow(u, to) /\ RequestArrives(u, to)) => RefusedAsExisting
       /\ \A i \in 1 .. Len(connections) :
             /\ i <= Len(connections')
             /\ connections'[i].id = connections[i].id
             /\ connections'[i].userId = connections[i].userId
             /\ connections'[i].connectedToId = connections[i].connectedToId
             /\ connections[i].status # "pending" => connections'[i].status # "pending"]_vars

(* A request for a pair whose connection was rejected has been refused. *)
C26_Witness_RejectedStillBlocks ==
    /\ req.op = "requestConnection"
    /\ req.wellFormed
    /\ res.status = 400
    /\ res.message = "Connection already exists"
    /\ \E i \in 1 .. Len(connections) :
          /\ connections[i].userId = req.user
          /\ connections[i].connectedToId = req.connectedToId
          /\ connections[i].status = "rejected"
    /\ Cardinality({i \in 1 .. Len(connections) :
                      /\ connections[i].userId = req.user
                      /\ connections[i].connectedToId = req.connectedToId}) = 1

--------------------------------------------------------------------------
(* Properties of the notifications of connections with the requests served
   at the same time, checked under SpecConn *)

(* C15: a ConnectionAccepted notification is emitted only when
   respondToConnection succeeds with decision accepted, and it is addressed
   to the connection's requester with the responder as actor and the
   connection id as subject; a rejected decision and every failing respond
   call emit no notification. *)
C15_AcceptedNotificationOnlyOnAccept ==
    [][IF \E h \in Handlers :
             /\ Finishes(h, "respondToConnection")
             /\ inflight[h].status = "accepted"
             /\ res'.status = 200
       THEN \E h \in Handlers :
               /\ Finishes(h, "respondToConnection")
               /\ Len(NewNotifications) = 1
               /\ NewNotifications[1].type = "connection_accepted"
               /\ \E c \in getConnectionById(connections, inflight[h].id) :
                     NewNotifications[1].userId = c.userId
               /\ NewNotifications[1].fromUserId = inflight[h].user
               /\ NewNotifications[1].entityId = inflight[h].id
       ELSE /\ \A i \in 1 .. Len(NewNotifications) :
                  NewNotifications[i].type # "connection_accepted"
            /\ (\/ AnsweredAtOnce("respondToConnection")
                \/ \E h \in Handlers : Starts(h, "respondToConnection")
                \/ \E h \in Handlers : StepOf(h, "respondToConnection"))
                  => notifications' = notifications]_vars

(* The recipient accepted another user's request, and the last notification
   tells the requester so. *)
C15_Witness_RequesterNotified ==
    /\ req.op = "respondToConnection"
    /\ req.status = "accepted"
    /\ res.status = 200
    /\ Len(notifications) > 0
    /\ \E c \in getConnectionById(connections, req.id) :
          /\ c.userId # req.user
          /\ notifications[Len(notifications)].type = "connection_accepted"
          /\ notifications[Len(notifications)].userId = c.userId
          /\ notifications[Len(notifications)].fromUserId = req.user
          /\ notifications[Len(notifications)].entityId = req.id

(* C16: every successful requestConnection creates a Connection with status
   pending and exactly one ConnectionRequested notification with actor =
   requester, recipient = recipient and subject = the id of the new
   connection, which is stored by then: the handler's insert adds the
   pending row and no notification, and the step that answers 201 adds the
   one notification, for the row the handler has inserted; no other step
   adds a connection_request notification. *)
C16_RequestCreatesPendingAndNotifies ==
    [][/\ \A h \in Handlers :
             (StepOf(h, "requestConnection") /\ ~Finishes(h, "requestConnection"))
                 => /\ Len(connections') = Len(connections) + 1
                    /\ SubSeq(connections', 1, Len(connections)) = connections
                    /\ connections'[Len(connections')].status = "pending"
                    /\ connections'[Len(connections')].userId = inflight[h].user
                    /\ connections'[Len(connections')].connectedToId
                          = inflight[h].connectedToId
                    /\ \A c \in Rows(connections) :
                          c.id # connections'[Len(connections')].id
                    /\ inflight'[h].connection = connections'[Len(connections')]
                    /\ notifications' = notifications
       /\ \A h \in Handlers :
             Finishes(h, "requestConnection")
                 => /\ res'.status = 201
                    /\ res'.body = <<inflight[h].connection>>
                    /\ res'.body[1].status = "pending"
                    /\ connections' = connections
                    /\ Len(NewNotifications) = 1
                    /\ NewNotifications[1].type = "connection_request"
                    /\ NewNotifications[1].fromUserId = inflight[h].user
                    /\ NewNotifications[1].userId = inflight[h].connectedToId
                    /\ NewNotifications[1].entityId = inflight[h].connection.id
                    /\ \E c \in getConnectionById(connections, inflight[h].connection.id) :
                          SamePair(c, inflight[h].connection)
       /\ (\A h \in Handlers : ~Finishes(h, "requestConnection"))
             => \A i \in 1 .. Len(NewNotifications) :
                   NewNotifications[i].type # "connection_request"]_vars

(* A request to another user succeeded: the connection it returned is
   stored, and the newest notification announces it to the recipient. *)
C16_Witness_RequestNotified ==
    /\ req.op = "requestConnection"
    /\ res.status = 201
    /\ req.user # req.connectedToId
    /\ res.body[1].status = "pending"
    /\ getConnectionById(connections, res.body[1].id) # {}
    /\ notifications[Len(notifications)].type = "connection_request"
    /\ notifications[Len(notifications)].userId = req.connectedToId
    /\ notifications[Len(notifications)].fromUserId = req.user
    /\ notifications[Len(notifications)].entityId = res.body[1].id

IsConnectionNotification(n) == n.type \in {"connection_request", "connection_accepted"}

(* C29: the subject (entityId) of every connection_request and
   connection_accepted notification is the id of a stored connection whose
   parties are the notification's actor and recipient: for a request the
   actor is the requester and the recipient the recipient, for an accept the
   actor is the recipient and the recipient the requester. *)
C29_ConnectionNotificationsNameTheirConnection ==
    \A i \in 1 .. Len(notifications) :
        IsConnectionNotification(notifications[i]) =>
            \E j \in 1 .. Len(connections) :
                /\ connections[j].id = notifications[i].entityId
                /\ IF notifications[i].type = "connection_request"
                   THEN /\ notifications[i].fromUserId = connections[j].userId
                        /\ notifications[i].userId = connections[j].connectedToId
                   ELSE /\ notifications[i].fromUserId = connections[j].connectedToId
                        /\ notifications[i].userId = connections[j].userId

(* A connection between two distinct users has both its request and its
   accepted notification. *)
C29_Witness_RequestAndAcceptNotified ==
    \E j \in 1 .. Len(connections) :
        /\ connections[j].userId # connections[j].connectedToId
        /\ connections[j].status = "accepted"
        /\ \E i \in 1 .. Len(notifications) :
              /\ notifications[i].type = "connection_request"
              /\ notifications[i].entityId = connections[j].id
        /\ \E i \in 1 .. Len(notifications) :
              /\ notifications[i].type = "connection_accepted"
              /\ notifications[i].entityId = connections[j].id

--------------------------------------------------------------------------
(* Properties of the NotificationDispatcher *)

(* C4: no Notification is ever persisted with actorId = recipientId
   (fromUserId = userId).  Checked under SpecNotify. *)
C4_NoSelfNotification ==
    \A i \in 1 .. Len(notifications) :
        notifications[i].fromUserId # notifications[i].userId

--------------------------------------------------------------------------
(* Properties of connection listing, checked under SpecConnList *)

(* The connections listConnections(userId, statusFilter) is to return *)
ListedFor(userId, status) ==
    {c \in Rows(connections) :
        /\ c.userId = userId \/ c.connectedToId = userId
        /\ status = "" \/ c.status = status}

(* C14: listConnections(userId, statusFilter?) returns exactly the
   Connections in which userId is requester or recipient, newest first, and
   with a statusFilter exactly those of them with that status; it never
   returns a Connection between two other users. *)
C14_ListConnectionsOfUserOnly ==
    [][AnsweredAtOnce("listConnections") =>
         /\ {res'.body[i] : i \in 1 .. Len(res'.body)} = ListedFor(req'.user, req'.status)
         /\ Len(res'.body) = Cardinality(ListedFor(req'.user, req'.status))
         /\ \A i, j \in 1 .. Len(res'.body) :
               i < j => res'.body[i].createdAt > res'.body[j].createdAt]_vars

--------------------------------------------------------------------------
(* Properties of the EngagementAggregator with the requests issued one at a
   time *)

ReactionRowsOf(u, v) ==
    {i \in 1 .. Len(likes) : likes[i].userId = u /\ likes[i].vibeId = v}

(* C7: after any sequence of like requests there is exactly one Reaction row
   per (userId, vibeId) that has been reacted to (and none for a pair that
   has not), and its isLike is the value of the most recent request for that
   pair.  Checked under SpecReaction. *)
C7_OneReactionRowWithLastValue ==
    \A u \in Users : \A v \in VibeIds :
        IF lastReaction[<<u, v>>] = "none"
        THEN ReactionRowsOf(u, v) = {}
        ELSE /\ Cardinality(ReactionRowsOf(u, v)) = 1
             /\ \A i \in ReactionRowsOf(u, v) :
                   likes[i].isLike = (lastReaction[<<u, v>>] = "like")

(* setReaction(u, c, true), (u, c, false), (u, c, true) were the last three
   requests: one row for (u, c), with isLike = true. *)
C7_Witness_LikeDislikeLike ==
    /\ req.op = "setReaction"
    /\ res.status = 201
    /\ reactionRun = <<TRUE, FALSE, TRUE>>
    /\ NoneInFlight
    /\ Cardinality(ReactionRowsOf(req.user, req.vibeId)) = 1
    /\ \A i \in ReactionRowsOf(req.user, req.vibeId) : likes[i].isLike

(* The handler's like request is served (201) with isLike = true for the
   vibe of another user. *)
LikeOfOthersVibe(h) ==
    /\ Finishes(h, "setReaction")
    /\ res'.status = 201
    /\ inflight[h].isLike
    /\ \E v \in getVibeById(vibes, inflight[h].vibeId) : v.userId # inflight[h].user

(* C17: setReaction emits a ReactionRecorded notification (recipient = the
   content's author, actor = the reacting user, subject = the content id)
   on every call whose resulting isLike is true and whose user is not the
   author, and emits none when isLike is false or the user is the author:
   the step that answers such a call adds the one notification, and no other
   step of a like request adds any.  Checked under SpecReaction. *)
C17_LikeNotifiesAuthor ==
    [][\A h \in Handlers :
          (Starts(h, "setReaction") \/ StepOf(h, "setReaction")) =>
              IF LikeOfOthersVibe(h)
              THEN /\ Len(NewNotifications) = 1
                   /\ NewNotifications[1].type = "like"
                   /\ \E v \in getVibeById(vibes, inflight[h].vibeId) :
                         NewNotifications[1].userId = v.userId
                   /\ NewNotifications[1].fromUserId = inflight[h].user
                   /\ NewNotifications[1].entityId = inflight[h].vibeId
              ELSE notifications' = notifications]_vars

(* A user liked another user's vibe twice in a row: the author has two like
   notifications from that user for that vibe. *)
C17_Witness_EveryLikeNotifies ==
    /\ req.op = "setReaction"
    /\ res.status = 201
    /\ reactionRun = <<TRUE, TRUE>>
    /\ \E v \in getVibeById(vibes, req.vibeId) :
          /\ v.userId # req.user
          /\ Cardinality({i \in 1 .. Len(notifications) :
                            /\ notifications[i].type = "like"
                            /\ notifications[i].userId = v.userId
                            /\ notifications[i].fromUserId = req.user
                            /\ notifications[i].entityId = req.vibeId}) = 2

(* The step answers a request for the trending list. *)
TrendingAnswered ==
    /\ req'.op = "getTrendingVibes"
    /\ \/ inflight' = inflight
       \/ \E h \in Handlers : Finishes(h, "getTrendingVibes")

(* The ranking the claim describes: the vibes by count of likes descending,
   ties by createdAt descending. *)
RanksBefore(a, b) ==
    \/ likesCount(likes, a.id) > likesCount(likes, b.id)
    \/ /\ likesCount(likes, a.id) = likesCount(likes, b.id)
       /\ a.createdAt > b.createdAt

IsRankedTop(body, limit) ==
    /\ Len(body) = Min(limit, Len(vibes))
    /\ \A i \in 1 .. Len(body) : body[i] \in Rows(vibes)
    /\ \A i, j \in 1 .. Len(body) : i < j => RanksBefore(body[i], body[j])
    /\ \A i \in 1 .. Len(body) : \A v \in Rows(vibes) :
          RanksBefore(v, body[i]) => \E j \in 1 .. Len(body) : body[j] = v

(* C8: computeTrending(limit) returns the top `limit` ContentItems ordered by
   count of likes descending, ties broken by createdAt descending.  Checked
   under SpecTrending. *)
C8_TrendingRankedByLikes ==
    [][TrendingAnswered => IsRankedTop(res'.body, req'.limit)]_vars

(* The counter an incremental implementation keeps per vibe: the number of
   users whose last reaction to the vibe is a like. *)
LikeCounter(vibeId) ==
    Cardinality({u \in Users : lastReaction[<<u, vibeId>>] = "like"})

(* The results the counters admit for a limit: the vibes of a set of
   `limit` ids that no vibe left out out-counts, newest first. *)
CounterTrending(limit) ==
    {orderByCreatedAtDesc({v \in Rows(vibes) : v.id \in S}) :
        S \in {T \in SUBSET {v.id : v \in Rows(vibes)} :
                 /\ Cardinality(T) = Min(limit, Len(vibes))
                 /\ \A a \in T : \A b \in {v.id : v \in Rows(vibes)} \ T :
                       LikeCounter(a) >= LikeCounter(b)}}

(* C27: the trending list is what an implementation with incremental
   counters returns: it follows from the vibes and from the last isLike
   value of each (user, vibe) alone, whatever the history of like requests
   that led to these values (a single like, or like, dislike, like), and a
   reaction whose last value is a dislike does not count.  Checked under
   SpecTrending. *)
C27_TrendingEquivalentToCounters ==
    [][TrendingAnswered => res'.body \in CounterTrending(req'.limit)]_vars

(* After like, dislike, like of one user for one vibe, the top-1 list is
   that vibe, ahead of a vibe without likes. *)
C27_Witness_RelikedVibeOnTop ==
    /\ req.op = "getTrendingVibes"
    /\ req.limit = 1
    /\ Len(vibes) = 2
    /\ reactionRun = <<TRUE, FALSE, TRUE>>
    /\ NoneInFlight
    /\ Len(likes) = 1
    /\ likes[1].isLike
    /\ Len(res.body) = 1
    /\ res.body[1].id = likes[1].vibeId

--------------------------------------------------------------------------
(* Properties of the tag query, checked under SpecHashtag *)

(* The tag in lower case, for the tags in use *)
LowerCase(tag) ==
    IF tag = "Web3" THEN "web3" ELSE tag

TaggedWith(tag) ==
    {v \in Rows(vibes) :
        \E i \in 1 .. Len(v.hashtags) : LowerCase(v.hashtags[i]) = LowerCase(tag)}

(* C20: queryByTag(tag) returns exactly the ContentItems whose tag set
   contains the tag under case-insensitive comparison (a query for web3
   returns an item tagged Web3), newest first. *)
C20_TagQueryCaseInsensitive ==
    req.op = "getVibesByHashtag" =>
        /\ {res.body[i] : i \in 1 .. Len(res.body)} = TaggedWith(req.hashtag)
        /\ Len(res.body) = Cardinality(TaggedWith(req.hashtag))
        /\ \A i, j \in 1 .. Len(res.body) :
              i < j => res.body[i].createdAt > res.body[j].createdAt

--------------------------------------------------------------------------
(* Properties of stored notifications *)

SameButIsRead(n, m) ==
    /\ n.id = m.id
    /\ n.userId = m.userId
    /\ n.type = m.type
    /\ n.fromUserId = m.fromUserId
    /\ n.entityId = m.entityId
    /\ n.content = m.content
    /\ n.createdAt = m.createdAt

MarksAsRead(id) ==
    AnsweredAtOnce("markNotificationAsRead") /\ req'.id = id

(* C18: a Notification's isRead moves only unread -> read: markRead sets
   isRead to true, no operation sets it back to false, and no operation
   changes any other field of an existing Notification.  Checked under
   SpecRead. *)
C18_IsReadOneWay ==
    [][/\ Len(notifications') >= Len(notifications)
       /\ \A i \in 1 .. Len(notifications) :
             /\ SameButIsRead(notifications[i], notifications'[i])
             /\ notifications[i].isRead => notifications'[i].isRead
             /\ MarksAsRead(notifications[i].id) => notifications'[i].isRead
             /\ notifications'[i].isRead # notifications[i].isRead
                   => MarksAsRead(notifications[i].id)]_vars

(* A notification was marked as read and is read; another one is still
   unread. *)
C18_Witness_MarkedRead ==
    /\ req.op = "markNotificationAsRead"
    /\ \E n \in Rows(notifications) :
          /\ n.id = req.id
          /\ n.isRead
          /\ res.body = <<n>>
    /\ \E i \in 1 .. Len(notifications) : ~notifications[i].isRead

SnippetWithinLimit ==
    \A i \in 1 .. Len(notifications) :
        notifications[i].type \in {"comment", "message"}
            => Len(notifications[i].content) <= SnippetLen

(* C19: for comment and message events the Notification's content is the
   denormalized snippet, the first 50 characters of the comment or message
   text, so its length never exceeds 50.  Checked under SpecSnippet. *)
C19_ContentIsSnippet ==
    /\ []SnippetWithinLimit
    /\ [][\A h \in Handlers :
            ((Finishes(h, "addComment") \/ Finishes(h, "sendMessage")) /\ res'.status = 201)
                => \A i \in 1 .. Len(NewNotifications) :
                      NewNotifications[i].content
                          = SubSeq(inflight[h].content, 1,
                                   Min(SnippetLen, Len(inflight[h].content)))]_vars

(* The stored notifications addressed to user u, with the isRead value asked
   for when the filter is given *)
ExpectedListing(u, isRead) ==
    {i \in 1 .. Len(notifications) :
        /\ notifications[i].userId = u
        /\ isRead = "true" => notifications[i].isRead
        /\ isRead = "false" => ~notifications[i].isRead}

(* C30: the notification listing of a user u holds only notifications whose
   recipient is u; with the isRead filter given it holds exactly u's
   notifications with that isRead value (without it, exactly u's), each
   once, newest first; a notification addressed to another user is never
   in it.  Checked under SpecInbox. *)
C30_ListingOfOwnNotificationsOnly ==
    [][AnsweredAtOnce("listNotifications") =>
         /\ res'.status = 200
         /\ \A i \in 1 .. Len(res'.body) : res'.body[i].userId = req'.user
         /\ {res'.body[i] : i \in 1 .. Len(res'.body)}
               = {notifications[i] : i \in ExpectedListing(req'.user, req'.isRead)}
         /\ Len(res'.body) = Cardinality(ExpectedListing(req'.user, req'.isRead))
         /\ \A i, j \in 1 .. Len(res'.body) :
               i < j => res'.body[i].createdAt > res'.body[j].createdAt]_vars

(* A listing with the isRead filter returned the caller's notification while
   another user's notification with the same isRead value is stored. *)
C30_Witness_FilteredListingKeepsOthersOut ==
    /\ req.op = "listNotifications"
    /\ req.isRead \in {"true", "false"}
    /\ Len(res.body) >= 1
    /\ res.body[1] \in Rows(notifications)
    /\ \E i \in 1 .. Len(notifications) :
          /\ notifications[i].userId # req.user
          /\ notifications[i].isRead = res.body[1].isRead

--------------------------------------------------------------------------
(* Properties of requests served at the same time *)

RequestNotifications(a, b) ==
    {n \in Rows(notifications) :
        n.type = "connection_request" /\ n.fromUserId = a /\ n.userId = b}

(* C21: two connection requests for the same ordered pair (a, b), served at
   the same time, leave one connections row and one connection_request
   notification for the pair, however their lookups and inserts interleave:
   no state holds two rows or two request notifications of one pair, and a
   request notification of a pair comes with the pair's row.  Checked under
   SpecConnRace. *)
C21_ConcurrentRequestsOneConnection ==
    \A a \in Users, b \in Users :
        /\ Cardinality(getConnectionByUsers(connections, a, b)) <= 1
        /\ Cardinality(RequestNotifications(a, b)) <= 1
        /\ RequestNotifications(a, b) # {} => getConnectionByUsers(connections, a, b) # {}

(* C22: like requests of one (user, vibe) served at the same time end in one
   value, that of the write committed last, and never in two likes rows of
   the (user, vibe): in every state the (user, vibe) has at most one row,
   and the row's isLike is the isLike of the last write committed.  Checked
   under SpecReactionRace. *)
C22_ConcurrentReactionsOneRow ==
    \A u \in Users, vibeId \in VibeIds :
        /\ Cardinality(getLikeByUserAndVibe(likes, u, vibeId)) <= 1
        /\ \A l \in getLikeByUserAndVibe(likes, u, vibeId) :
              l.isLike = (lastReaction[<<u, vibeId>>] = "like")

AcceptedNotifications(connectionId) ==
    {i \in 1 .. Len(notifications) :
        /\ notifications[i].type = "connection_accepted"
        /\ notifications[i].entityId = connectionId}

(* C28: over any sequence of respondToConnection calls, at most one
   connection_accepted notification is created per connection id: an accept
   repeated on a connection that is already resolved adds none.  Checked
   under SpecRespondAgain. *)
C28_OneAcceptedNotificationPerConnection ==
    \A id \in ConnectionIds : Cardinality(AcceptedNotifications(id)) <= 1

--------------------------------------------------------------------------
(* Properties of the ProgressionEngine, checked under SpecLearning *)

(* Reads of the engine's tables: the ProgressRecords of (user, target), the
   LevelState rows of a user and the user's xp (0 without a row) *)
getProgress(table, userId, targetId) ==
    {p \in Rows(table) : p.userId = userId /\ p.targetId = targetId}

levelStateOf(userId) ==
    {l \in Rows(userLevel) : l.userId = userId}

RECURSIVE SumXp(_)
SumXp(rows) ==
    IF rows = {} THEN 0
    ELSE LET r == CHOOSE x \in rows : TRUE
         IN  r.xp + SumXp(rows \ {r})

xpOf(table, userId) ==
    SumXp({l \in Rows(table) : l.userId = userId})

getDefinitionById(definitions, id) ==
    {d \in Rows(definitions) : d.id = id}

RECURSIVE SumXpReward(_)
SumXpReward(definitions) ==
    IF definitions = {} THEN 0
    ELSE LET d == CHOOSE x \in definitions : TRUE
         IN  d.xpReward + SumXpReward(definitions \ {d})

xpRewardOf(definitions, id) ==
    SumXpReward(getDefinitionById(definitions, id))

(* The step answers a call of the operation for a known definition whose
   reward is not negative. *)
CompletesQuest ==
    /\ AnsweredAtOnce("completeQuest")
    /\ \E q \in getDefinitionById(quests, req'.questId) : q.xpReward >= 0

CompletesModule ==
    /\ AnsweredAtOnce("completeModule")
    /\ \E m \in getDefinitionById(learningModules, req'.moduleId) : m.xpReward >= 0

(* C5: completeQuest(u, q) called any number of times awards q.xpReward to u
   exactly once: the first call completes the quest, returns the completed
   record and adds q.xpReward to u's xp, and every later call adds nothing
   and returns the unchanged completed record. *)
C5_QuestXpAwardedOnce ==
    [][CompletesQuest =>
         LET before == getProgress(userQuestProgress, req'.user, req'.questId)
             after  == getProgress(userQuestProgress', req'.user, req'.questId)
         IN  /\ res'.status = 200
             /\ \E p \in after : p.completed /\ res'.body = <<p>>
             /\ IF before = {}
                THEN xpOf(userLevel', req'.user)
                       = xpOf(userLevel, req'.user) + xpRewardOf(quests, req'.questId)
                ELSE /\ xpOf(userLevel', req'.user) = xpOf(userLevel, req'.user)
                     /\ userQuestProgress' = userQuestProgress]_vars

(* C6: completeModule(u, m) leaves a completed ProgressRecord of (u, m) and
   returns it; if one exists already, the call returns it unchanged and
   grants no XP. *)
C6_ModuleCompletionIdempotent ==
    [][CompletesModule =>
         LET before == getProgress(userLearningProgress, req'.user, req'.moduleId)
             after  == getProgress(userLearningProgress', req'.user, req'.moduleId)
         IN  /\ \E p \in after : p.completed /\ res'.body = <<p>>
             /\ (\E p \in before : p.completed)
                   => /\ userLevel' = userLevel
                      /\ userLearningProgress' = userLearningProgress]_vars

requiredProgressOf(id) ==
    (CHOOSE a \in Rows(achievements) : a.id = id).requiredProgress

AchievementProgressBounded ==
    \A i \in 1 .. Len(userAchievementProgress) :
        LET p == userAchievementProgress[i]
        IN  /\ p.progress <= requiredProgressOf(p.targetId)
            /\ p.unlocked <=> (p.progress = requiredProgressOf(p.targetId))

(* C9: incrementAchievementProgress never drives progress above
   requiredProgress; unlocked flips from false to true exactly once, at the
   call where progress reaches requiredProgress, and stays true with progress
   unchanged on every further increment: a call for a known achievement
   leaves the record of (user, achievement) with the progress it had (0
   without a record) plus the amount, capped at requiredProgress, and
   unlocked exactly when the progress is requiredProgress. *)
C9_AchievementProgressClamped ==
    /\ []AchievementProgressBounded
    /\ [][(/\ AnsweredAtOnce("incrementAchievementProgress")
           /\ getDefinitionById(achievements, req'.achievementId) # {})
            => LET before == getProgress(userAchievementProgress, req'.user,
                                         req'.achievementId)
                   after  == getProgress(userAchievementProgress', req'.user,
                                         req'.achievementId)
                   old    == IF before = {} THEN 0
                             ELSE (CHOOSE p \in before : TRUE).progress
               IN  \E p \in after :
                      /\ p.progress = Min(old + req'.amount,
                                          requiredProgressOf(req'.achievementId))
                      /\ p.unlocked
                            <=> (p.progress = requiredProgressOf(req'.achievementId))]_vars

XpNeverNegative == \A l \in Rows(userLevel) : l.xp >= 0

(* The step answers a completion request for a definition whose xpReward is
   negative: the route passes the reward to addUserXp. *)
NegativeAwardStep ==
    \/ /\ AnsweredAtOnce("completeQuest")
       /\ \E q \in getDefinitionById(quests, req'.questId) : q.xpReward < 0
    \/ /\ AnsweredAtOnce("completeModule")
       /\ \E m \in getDefinitionById(learningModules, req'.moduleId) : m.xpReward < 0

(* C12: awardXp with a negative amount fails with a validation error (the
   400 answer of this server's validations) and leaves LevelState unchanged,
   so xp >= 0 holds in every reachable state, also when a quest or module
   definition carries a negative xpReward. *)
C12_NegativeAwardRejected ==
    /\ []XpNeverNegative
    /\ [][NegativeAwardStep => (res'.status = 400 /\ userLevel' = userLevel)]_vars

(* The step answers a completion request for an id that no definition has. *)
UnknownDefinitionStep ==
    \/ /\ AnsweredAtOnce("completeQuest")
       /\ getDefinitionById(quests, req'.questId) = {}
    \/ /\ AnsweredAtOnce("completeModule")
       /\ getDefinitionById(learningModules, req'.moduleId) = {}

(* C13: completeQuest / completeModule for an unknown definition id fails
   with a not-found error (the 404 answer of this server for what it does
   not find), creates no ProgressRecord and awards no XP. *)
C13_UnknownDefinitionRejected ==
    [][UnknownDefinitionStep =>
         /\ res'.status = 404
         /\ userQuestProgress' = userQuestProgress
         /\ userLearningProgress' = userLearningProgress
         /\ userLevel' = userLevel]_vars

CompletedQuests(u) ==
    {q \in Rows(quests) :
        \E p \in getProgress(userQuestProgress, u, q.id) : p.completed}

(* C23: first-time completions of one (user, quest) served at the same time
   create one progress record and award the quest's xpReward once: a
   (user, quest) whose completion has been answered has exactly one record,
   no (user, quest) has two, and the user's xp is the sum of the rewards of
   the quests the user has completed. *)
C23_ConcurrentCompletionsAwardOnce ==
    /\ \A u \in ActiveUsers : \A q \in Rows(quests) :
          Cardinality(getProgress(userQuestProgress, u, q.id)) <= 1
    /\ (/\ req.op = "completeQuest"
        /\ \E q \in getDefinitionById(quests, req.questId) : q.xpReward >= 0)
          => /\ Cardinality(getProgress(userQuestProgress, req.user, req.questId)) = 1
             /\ xpOf(userLevel, req.user) >= SumXpReward(CompletedQuests(req.user))

(* The amount a completion request awards when it is the first of its
   (user, target) *)
AwardOf(r) ==
    IF r.op = "completeQuest"
    THEN IF getProgress(userQuestProgress, r.user, r.questId) = {}
         THEN xpRewardOf(quests, r.questId) ELSE 0
    ELSE IF getProgress(userLearningProgress, r.user, r.moduleId) = {}
         THEN xpRewardOf(learningModules, r.moduleId) ELSE 0

(* C24: awards to one user served at the same time lose no update: each
   award adds exactly its amount to the xp the user has at that step, so
   after k awards a1..ak the xp is the initial xp plus a1+...+ak. *)
C24_NoAwardLost ==
    [][(CompletesQuest \/ CompletesModule) =>
          xpOf(userLevel', req'.user) = xpOf(userLevel, req'.user) + AwardOf(req')]_vars

(* C25: the LevelState of a user is created on the user's first touch with
   level 1 and xp 0, and no state holds two user_level rows of one user: the
   level route answers with the user's one row, which has level 1 and xp 0
   when the request is the user's first touch. *)
C25_OneLevelStatePerUser ==
    /\ [](\A u \in Users : Cardinality(levelStateOf(u)) <= 1)
    /\ [][AnsweredAtOnce("getUserLevel") =>
            /\ res'.status = 200
            /\ \E l \in {r \in Rows(userLevel') : r.userId = req'.user} :
                  /\ res'.body = <<l>>
                  /\ levelStateOf(req'.user) = {} => (l.level = 1 /\ l.xp = 0)]_vars

--------------------------------------------------------------------------
(* The level of a user, checked under SpecLearning: the LevelState rows of
   table user_level, and the level the learn page shows. *)

(* Two LevelState rows with the same xp have the same level. *)
LevelIsFunctionOfXp ==
    \A k, l \in Rows(userLevel) : k.xp = l.xp => k.level = l.level

(* No step lowers the xp or the level of a LevelState row, or removes the
   row. *)
LevelStateNeverDecreases ==
    \A l \in Rows(userLevel) :
        \E k \in Rows(userLevel') :
            k.userId = l.userId /\ k.xp >= l.xp /\ k.level >= l.level

(* No step lowers the xp or the level the learn page shows. *)
PageLevelNeverDecreases ==
    \A u \in ActiveUsers :
        /\ userProgress'[u].xp >= userProgress[u].xp
        /\ userProgress'[u].level >= userProgress[u].level

(* The step answers a completion request that is an XP award: the
   definition is known, its reward is positive and the user has no record
   of it yet. *)
XpAwardStep ==
    /\ CompletesQuest \/ CompletesModule
    /\ AwardOf(req') > 0

(* The level of a user before any award: the one LevelState is created
   with *)
InitialLevel == 1

levelOf(table, userId) ==
    IF \E l \in Rows(table) : l.userId = userId
    THEN (CHOOSE l \in Rows(table) : l.userId = userId).level
    ELSE InitialLevel

(* C11: a user's level is a deterministic function of the user's xp (two
   histories that reach the same xp reach the same level) and never
   decreases over any sequence of XP awards: LevelState rows of equal xp
   have equal levels, every XP award leaves the user a LevelState whose
   level is not below the level the user had, and no step lowers a level,
   in table user_level or on the learn page. *)
C11_LevelFunctionOfXpMonotonic ==
    /\ []LevelIsFunctionOfXp
    /\ [][LevelStateNeverDecreases /\ PageLevelNeverDecreases]_vars
    /\ [][XpAwardStep =>
            \E l \in Rows(userLevel') :
                /\ l.userId = req'.user
                /\ l.level >= levelOf(userLevel, req'.user)]_vars

====
